---- MODULE Spec2Model ----
(***************************************************************************)
(* Depthtop/Shaders/ShaderTypes.h: the layout shared by the host (Swift/C) *)
(* and the Metal shaders.  The header is compiled twice, once by the host  *)
(* toolchain and once by the shader toolchain; each lays the declarations  *)
(* out field by field.  The run-time part writes one WindowUniformsArray   *)
(* per window and frame through the host layout and reads it back through  *)
(* the shader layout.                                                      *)
(***************************************************************************)
EXTENDS Integers, Sequences, FiniteSets

\* ------------------------------------------------------------------ bounds
NumWindows == 1
NumProducers == 2
MaxFrames == 1

\* ------------------------------------------------------- the declarations
Sides == {"host", "shader"}

StructNames == {"WindowUniforms", "WindowUniformsArray"}

\* Variant: the projection matrix is left out of WindowUniforms.
WindowUniformsFields_TwoMatrices ==
  << [name |-> "modelMatrix", type |-> "simd_float4x4", count |-> 1],
     [name |-> "viewMatrix",  type |-> "simd_float4x4", count |-> 1] >>

\* struct WindowUniforms { simd_float4x4 modelMatrix, viewMatrix, projectionMatrix; }
WindowUniformsFields ==
  << [name |-> "modelMatrix",      type |-> "simd_float4x4", count |-> 1],
     [name |-> "viewMatrix",       type |-> "simd_float4x4", count |-> 1],
     [name |-> "projectionMatrix", type |-> "simd_float4x4", count |-> 1] >>

\* Variant: padding2 is declared 64 bits wide.
WindowUniformsArrayFields_WidePadding2 ==
  << [name |-> "uniforms", type |-> "WindowUniforms", count |-> 2],
     [name |-> "windowID", type |-> "uint16_t", count |-> 1],
     [name |-> "isHovered", type |-> "uint16_t", count |-> 1],
     [name |-> "padding", type |-> "uint32_t", count |-> 1],
     [name |-> "hoverProgress", type |-> "float", count |-> 1],
     [name |-> "padding2", type |-> "uint64_t", count |-> 1] >>

\* Variant: isHovered is declared as one byte.
WindowUniformsArrayFields_ByteFlag ==
  << [name |-> "uniforms", type |-> "WindowUniforms", count |-> 2],
     [name |-> "windowID", type |-> "uint16_t", count |-> 1],
     [name |-> "isHovered", type |-> "uint8_t", count |-> 1],
     [name |-> "padding", type |-> "uint32_t", count |-> 1],
     [name |-> "hoverProgress", type |-> "float", count |-> 1],
     [name |-> "padding2", type |-> "uint32_t", count |-> 1] >>

\* Variant: hoverProgress is declared as a 16-bit float.
WindowUniformsArrayFields_HalfProgress ==
  << [name |-> "uniforms", type |-> "WindowUniforms", count |-> 2],
     [name |-> "windowID", type |-> "uint16_t", count |-> 1],
     [name |-> "isHovered", type |-> "uint16_t", count |-> 1],
     [name |-> "padding", type |-> "uint32_t", count |-> 1],
     [name |-> "hoverProgress", type |-> "_Float16", count |-> 1],
     [name |-> "padding2", type |-> "uint32_t", count |-> 1] >>

\* Variant: isHovered is declared before windowID.
WindowUniformsArrayFields_FlagBeforeId ==
  << [name |-> "uniforms", type |-> "WindowUniforms", count |-> 2],
     [name |-> "isHovered", type |-> "uint16_t", count |-> 1],
     [name |-> "windowID", type |-> "uint16_t", count |-> 1],
     [name |-> "padding", type |-> "uint32_t", count |-> 1],
     [name |-> "hoverProgress", type |-> "float", count |-> 1],
     [name |-> "padding2", type |-> "uint32_t", count |-> 1] >>

\* Variant: the unpadded revision, without padding and padding2.
WindowUniformsArrayFields_Unpadded ==
  << [name |-> "uniforms", type |-> "WindowUniforms", count |-> 2],
     [name |-> "windowID", type |-> "uint16_t", count |-> 1],
     [name |-> "isHovered", type |-> "uint16_t", count |-> 1],
     [name |-> "hoverProgress", type |-> "float", count |-> 1] >>

\* Variant: padding2 is left out.
WindowUniformsArrayFields_NoTrailingPad ==
  << [name |-> "uniforms", type |-> "WindowUniforms", count |-> 2],
     [name |-> "windowID", type |-> "uint16_t", count |-> 1],
     [name |-> "isHovered", type |-> "uint16_t", count |-> 1],
     [name |-> "padding", type |-> "uint32_t", count |-> 1],
     [name |-> "hoverProgress", type |-> "float", count |-> 1] >>

\* struct WindowUniformsArray, the padded revision
WindowUniformsArrayFields ==
  << [name |-> "uniforms",      type |-> "WindowUniforms", count |-> 2],
     [name |-> "windowID",      type |-> "uint16_t",       count |-> 1],
     [name |-> "isHovered",     type |-> "uint16_t",       count |-> 1],
     [name |-> "padding",       type |-> "uint32_t",       count |-> 1],
     [name |-> "hoverProgress", type |-> "float",          count |-> 1],
     [name |-> "padding2",      type |-> "uint32_t",       count |-> 1] >>

StructFields(s) ==
  IF s = "WindowUniforms" THEN WindowUniformsFields ELSE WindowUniformsArrayFields

\* Variant: the padding member sits inside #ifdef __METAL_VERSION__, so that
\* only the shader sees it.
VisibleFields_PaddingMetalOnly(side, s) ==
  SelectSeq(StructFields(s), LAMBDA f : side = "shader" \/ f.name # "padding")

\* What each side's preprocessor leaves of a struct: both structs are declared
\* outside the #ifdef __METAL_VERSION__ block, so both sides see every field.
VisibleFields(side, s) == StructFields(s)

\* Variant: the enumerators are declared in another order.
FunctionConstantDecl_Reordered ==
  << [name |-> "FunctionConstantDebugColors",     init |-> << >>],
     [name |-> "FunctionConstantHoverEffect",     init |-> << >>],
     [name |-> "FunctionConstantUseTextureArray", init |-> << >>] >>

\* typedef enum FunctionConstant { ... }: init is << >> for an enumerator that
\* has no explicit initializer and <<v>> for one written "= v".
FunctionConstantDecl ==
  << [name |-> "FunctionConstantHoverEffect",     init |-> << >>],
     [name |-> "FunctionConstantUseTextureArray", init |-> << >>],
     [name |-> "FunctionConstantDebugColors",     init |-> << >>] >>

\* ------------------------------------------------- the two toolchains' types
\* <<size, alignment>> of the scalar and simd types, per toolchain: the host's
\* <simd/simd.h> and <stdint.h>, and the Metal standard library's.
HostTypeInfo(t) ==
  CASE t = "simd_float4x4" -> <<64, 16>>
    [] t = "float"         -> <<4, 4>>
    [] t = "uint32_t"      -> <<4, 4>>
    [] t = "uint16_t"      -> <<2, 2>>
    [] t = "uint8_t"       -> <<1, 1>>
    [] t = "uint64_t"      -> <<8, 8>>
    [] t = "_Float16"      -> <<2, 2>>

ShaderTypeInfo(t) ==
  CASE t = "simd_float4x4" -> <<64, 16>>   \* float4x4
    [] t = "float"         -> <<4, 4>>
    [] t = "uint32_t"      -> <<4, 4>>     \* uint
    [] t = "uint16_t"      -> <<2, 2>>     \* ushort
    [] t = "uint8_t"       -> <<1, 1>>     \* uchar
    [] t = "uint64_t"      -> <<8, 8>>     \* ulong
    [] t = "_Float16"      -> <<2, 2>>     \* half

ScalarInfo(side, t) == IF side = "host" THEN HostTypeInfo(t) ELSE ShaderTypeInfo(t)

\* The smallest multiple of a that is >= x.
AlignUp(x, a) == ((x + a - 1) \div a) * a

Max(a, b) == IF a >= b THEN a ELSE b

VARIABLES
  pc,        \* per side: the declaration being laid out, or "done"
  idx,       \* per side: how many members of it are placed
  cursor,    \* per side: the end of the last member placed
  offs,      \* per side and struct: the offsets of the members placed so far
  sizes,     \* per side and struct: sizeof, 0 while the type is incomplete
  aligns,    \* per side and struct: alignof, the largest member alignment so far
  enumVal    \* per side: the values of the enumerators seen so far

VARIABLES
  frame,     \* the frame being rendered
  phase,     \* per window: "none", "written", "handed" or "read"
  owner,     \* per window: the producer that holds the instance, 0 if none does
  born,      \* per window: the frame the instance was constructed in
  buffer,    \* per window: the instance's bytes, << >> if none
  wrote,     \* per window: the values the producer last assigned to the fields
  saw,       \* per window: what the shader's last read returned
  twoWriters,\* a producer wrote an instance that another producer holds
  lateWrite, \* a write happened after the hand-off
  earlyRead  \* the shader read before the hand-off

layoutVars == <<pc, idx, cursor, offs, sizes, aligns, enumVal>>
runVars == <<frame, phase, owner, born, buffer, wrote, saw, twoWriters, lateWrite, earlyRead>>
vars == <<layoutVars, runVars>>

\* sizeof and alignof of a member type on a side: a struct that is already
\* complete, or a scalar.
SizeOfType(side, t) ==
  IF t \in StructNames THEN sizes[side][t] ELSE ScalarInfo(side, t)[1]

AlignOfType(side, t) ==
  IF t \in StructNames THEN aligns[side][t] ELSE ScalarInfo(side, t)[2]

InitLayout ==
  /\ pc = [s \in Sides |-> "WindowUniforms"]
  /\ idx = [s \in Sides |-> 0]
  /\ cursor = [s \in Sides |-> 0]
  /\ offs = [s \in Sides |-> [n \in StructNames |-> << >>]]
  /\ sizes = [s \in Sides |-> [n \in StructNames |-> 0]]
  /\ aligns = [s \in Sides |-> [n \in StructNames |-> 1]]
  /\ enumVal = [s \in Sides |-> << >>]

\* The struct that follows s in the header, then the enum.
NextDecl(s) == IF s = "WindowUniforms" THEN "WindowUniformsArray" ELSE "FunctionConstant"

\* One member of the current struct is placed at the smallest offset at or
\* after the cursor that is a multiple of its alignment.
PlaceField(side) ==
  /\ pc[side] \in StructNames
  /\ idx[side] < Len(VisibleFields(side, pc[side]))
  /\ LET s == pc[side]
         f == VisibleFields(side, s)[idx[side] + 1]
         a == AlignOfType(side, f.type)
         off == AlignUp(cursor[side], a)
     IN /\ offs' = [offs EXCEPT ![side][s] = Append(@, off)]
        /\ cursor' = [cursor EXCEPT ![side] = off + f.count * SizeOfType(side, f.type)]
        /\ aligns' = [aligns EXCEPT ![side][s] = Max(@, a)]
        /\ idx' = [idx EXCEPT ![side] = @ + 1]
  /\ UNCHANGED <<pc, sizes, enumVal, runVars>>

\* The closing brace: the size is the cursor rounded up to the alignment.
FinishStruct(side) ==
  /\ pc[side] \in StructNames
  /\ idx[side] = Len(VisibleFields(side, pc[side]))
  /\ sizes' = [sizes EXCEPT ![side][pc[side]] = AlignUp(cursor[side], aligns[side][pc[side]])]
  /\ pc' = [pc EXCEPT ![side] = NextDecl(pc[side])]
  /\ idx' = [idx EXCEPT ![side] = 0]
  /\ cursor' = [cursor EXCEPT ![side] = 0]
  /\ UNCHANGED <<offs, aligns, enumVal, runVars>>

\* One enumerator: its initializer if it has one, else 0 for the first and
\* the previous value plus one for the others.  The last one ends the header.
PlaceEnumerator(side) ==
  /\ pc[side] = "FunctionConstant"
  /\ idx[side] < Len(FunctionConstantDecl)
  /\ LET e == FunctionConstantDecl[idx[side] + 1]
         v == IF e.init # << >> THEN e.init[1]
              ELSE IF idx[side] = 0 THEN 0
              ELSE enumVal[side][idx[side]] + 1
     IN enumVal' = [enumVal EXCEPT ![side] = Append(@, v)]
  /\ idx' = [idx EXCEPT ![side] = @ + 1]
  /\ pc' = [pc EXCEPT ![side] =
              IF idx[side] + 1 = Len(FunctionConstantDecl) THEN "done" ELSE @]
  /\ UNCHANGED <<cursor, offs, sizes, aligns, runVars>>

\* ---------------------------------------------------------------- run time
Windows == 1 .. NumWindows
Producers == 1 .. NumProducers

\* Values the producer assigns.  A window's identifier (0x0102 for window 1,
\* 0x0204 for window 2, ...) and the hover flag (0, 1, a nonzero value whose
\* low byte is 0, the largest) are integers; hoverProgress is the four bytes
\* of its bit pattern, least significant first: 0.0, 1.5, the all-ones NaN and
\* 0x12345678.
WindowIDOf(w) == 258 * w
HoverFlagValues == {0, 1, 256, 65535}
ProgressPatterns ==
  { <<0, 0, 0, 0>>, <<0, 0, 192, 63>>, <<255, 255, 255, 255>>, <<120, 86, 52, 18>> }
\* What a byte nobody wrote may hold.
FillBytes == {0, 255}

\* A buffer is the sequence of its bytes: the byte at offset i is buf[i + 1].
NoBytes == << >>

\* The n bytes of the unsigned integer v, least significant first (host and
\* GPU are little-endian), and back.
IntBytes(v, n) == [k \in 1 .. n |-> (v \div (256 ^ (k - 1))) % 256]

RECURSIVE BytesInt(_)
BytesInt(b) == IF b = << >> THEN 0 ELSE b[1] + 256 * BytesInt(Tail(b))

\* An n-byte member at offset off is assigned the value whose bytes are b: its
\* n low bytes are stored, zero-extended if b is narrower.
Store(buf, off, n, b) ==
  SubSeq(buf, 1, off)
    \o [k \in 1 .. n |-> IF k <= Len(b) THEN b[k] ELSE 0]
    \o SubSeq(buf, off + n + 1, Len(buf))

\* A byte outside the buffer reads as anything.
ByteAt(buf, i, oob) == IF i + 1 \in DOMAIN buf THEN buf[i + 1] ELSE oob

\* The n bytes of the member at offset off.
Load(buf, off, n, oob) == [k \in 1 .. n |-> ByteAt(buf, off + k - 1, oob)]

\* A member's position in a side's view of a struct, its offset and its size.
FieldIndex(side, s, name) ==
  CHOOSE i \in 1 .. Len(VisibleFields(side, s)) : VisibleFields(side, s)[i].name = name

OffsetOf(side, s, name) == offs[side][s][FieldIndex(side, s, name)]

\* sizeof(member[0]): one element of the member (the member itself if it is
\* no array).
ElementSize(side, s, name) ==
  SizeOfType(side, VisibleFields(side, s)[FieldIndex(side, s, name)].type)

\* sizeof(member): all the elements of the member.
FieldSize(side, s, name) ==
  VisibleFields(side, s)[FieldIndex(side, s, name)].count * ElementSize(side, s, name)

\* uniforms[e].<member m>, with k = e * (members of WindowUniforms) + m - 1.
MatrixOffset(side, k) ==
  LET nm == Len(VisibleFields(side, "WindowUniforms"))
  IN OffsetOf(side, "WindowUniformsArray", "uniforms")
       + (k \div nm) * SizeOfType(side, "WindowUniforms")
       + offs[side]["WindowUniforms"][(k % nm) + 1]

MatrixCount(side) ==
  VisibleFields(side, "WindowUniformsArray")[FieldIndex(side, "WindowUniformsArray", "uniforms")].count
    * Len(VisibleFields(side, "WindowUniforms"))

\* The matrix the producer stores in slot k: 1.0 + k ulp on the diagonal, 0.0 elsewhere.
\* as the 64 bytes of its 16 floats, column by column: a diagonal float, then
\* four zero floats, and so on.
MatrixDiag(k) == <<k, 0, 128, 63>>

FourZeroFloats == <<0, 0, 0, 0, 0, 0, 0, 0, 0, 0, 0, 0, 0, 0, 0, 0>>

MatrixBytes(k) ==
  MatrixDiag(k) \o FourZeroFloats \o MatrixDiag(k) \o FourZeroFloats
    \o MatrixDiag(k) \o FourZeroFloats \o MatrixDiag(k)

RECURSIVE StoreUniforms(_, _)
StoreUniforms(buf, k) ==
  IF k = MatrixCount("host") THEN buf
  ELSE StoreUniforms(Store(buf, MatrixOffset("host", k),
                           SizeOfType("host", "simd_float4x4"), MatrixBytes(k)), k + 1)

MatrixReadsBack(buf, k, oob) ==
  Load(buf, MatrixOffset("shader", k), SizeOfType("shader", "simd_float4x4"), oob)
    = MatrixBytes(k)

\* The producer's initializer assigns every member the host declares, in
\* declaration order.
MemberValue(name, vals) ==
  CASE name = "windowID"      -> IntBytes(vals.id, 2)
    [] name = "isHovered"     -> IntBytes(vals.hov, 2)
    [] name = "hoverProgress" -> vals.prog
    [] OTHER                  -> <<0, 0, 0, 0>>

RECURSIVE StoreMembers(_, _, _)
StoreMembers(buf, i, vals) ==
  LET fs == VisibleFields("host", "WindowUniformsArray")
  IN IF i > Len(fs) THEN buf
     ELSE LET f == fs[i]
              next == IF f.type \in StructNames THEN StoreUniforms(buf, 0)
                      ELSE Store(buf, offs["host"]["WindowUniformsArray"][i],
                                 SizeOfType("host", f.type), MemberValue(f.name, vals))
          IN StoreMembers(next, i + 1, vals)

HostStore(buf, name, v) ==
  Store(buf, OffsetOf("host", "WindowUniformsArray", name),
        FieldSize("host", "WindowUniformsArray", name), v)

HostLoad(buf, name, oob) ==
  Load(buf, OffsetOf("host", "WindowUniformsArray", name),
       FieldSize("host", "WindowUniformsArray", name), oob)

ShaderLoad(buf, name, oob) ==
  Load(buf, OffsetOf("shader", "WindowUniformsArray", name),
       FieldSize("shader", "WindowUniformsArray", name), oob)

\* The shader's test of the flag: a 16-bit integer used as a boolean.
IsHoveredDecode(raw) == raw # 0

\* The application runs once both sides have compiled the header.
AppReady == \A side \in Sides : pc[side] = "done"

\* The discipline of the instance's life: one producer constructs and writes,
\* the hand-off barrier completes and the producer lets go of the instance,
\* the shader reads, the instance is dropped.
CanConstruct(w) == phase[w] = "none"
CanWrite(w, p) == phase[w] = "written" /\ owner[w] = p
CanHandOff(w) == phase[w] = "written"
\* Variant: the shader may read while the producer still holds the instance.
CanRead_BeforeHandOff(w) == phase[w] \in {"written", "handed", "read"}

CanRead(w) == phase[w] \in {"handed", "read"}
CanDiscard(w) == phase[w] = "read"
CanEndFrame == \A w \in Windows : phase[w] = "none"

InitRun ==
  /\ frame = 0
  /\ phase = [w \in Windows |-> "none"]
  /\ owner = [w \in Windows |-> 0]
  /\ twoWriters = FALSE
  /\ born = [w \in Windows |-> 0]
  /\ buffer = [w \in Windows |-> NoBytes]
  /\ wrote = [w \in Windows |-> {}]
  /\ saw = [w \in Windows |-> {}]
  /\ lateWrite = FALSE
  /\ earlyRead = FALSE

Construct(w, p, hov, prog, fill) ==
  /\ AppReady
  /\ CanConstruct(w)
  /\ LET vals == [id |-> WindowIDOf(w), hov |-> hov, prog |-> prog]
         fresh == [i \in 1 .. sizes["host"]["WindowUniformsArray"] |-> fill]
     IN /\ buffer' = [buffer EXCEPT ![w] = StoreMembers(fresh, 1, vals)]
        /\ wrote' = [wrote EXCEPT ![w] = {vals}]
  /\ phase' = [phase EXCEPT ![w] = "written"]
  /\ owner' = [owner EXCEPT ![w] = p]
  /\ born' = [born EXCEPT ![w] = frame]
  /\ twoWriters' = (twoWriters \/ owner[w] \notin {0, p})
  /\ lateWrite' = (lateWrite \/ phase[w] \in {"handed", "read"})
  /\ UNCHANGED <<layoutVars, frame, saw, earlyRead>>

WriteIsHovered(w, p, hov) ==
  /\ AppReady
  /\ CanWrite(w, p)
  /\ wrote[w] # {}
  /\ buffer' = [buffer EXCEPT ![w] = HostStore(@, "isHovered", IntBytes(hov, 2))]
  /\ wrote' = [wrote EXCEPT ![w] = {[v EXCEPT !.hov = hov] : v \in @}]
  /\ twoWriters' = (twoWriters \/ owner[w] # p)
  /\ lateWrite' = (lateWrite \/ phase[w] \in {"handed", "read"})
  /\ UNCHANGED <<layoutVars, frame, phase, owner, born, saw, earlyRead>>

WriteHoverProgress(w, p, prog) ==
  /\ AppReady
  /\ CanWrite(w, p)
  /\ wrote[w] # {}
  /\ buffer' = [buffer EXCEPT ![w] = HostStore(@, "hoverProgress", prog)]
  /\ wrote' = [wrote EXCEPT ![w] = {[v EXCEPT !.prog = prog] : v \in @}]
  /\ twoWriters' = (twoWriters \/ owner[w] # p)
  /\ lateWrite' = (lateWrite \/ phase[w] \in {"handed", "read"})
  /\ UNCHANGED <<layoutVars, frame, phase, owner, born, saw, earlyRead>>

HandOff(w) ==
  /\ AppReady
  /\ CanHandOff(w)
  /\ phase' = [phase EXCEPT ![w] = "handed"]
  /\ owner' = [owner EXCEPT ![w] = 0]
  /\ UNCHANGED <<layoutVars, frame, born, buffer, wrote, saw,
                 twoWriters, lateWrite, earlyRead>>

ShaderRead(w, oob) ==
  /\ AppReady
  /\ CanRead(w)
  /\ LET raw == BytesInt(ShaderLoad(buffer[w], "isHovered", oob))
     IN saw' = [saw EXCEPT ![w] =
                  {[id |-> BytesInt(ShaderLoad(buffer[w], "windowID", oob)),
                    hov |-> raw,
                    hovered |-> IsHoveredDecode(raw),
                    prog |-> ShaderLoad(buffer[w], "hoverProgress", oob),
                    mats |-> \A k \in 0 .. MatrixCount("shader") - 1 :
                                MatrixReadsBack(buffer[w], k, oob)]}]
  /\ earlyRead' = (earlyRead \/ phase[w] \notin {"handed", "read"})
  /\ phase' = [phase EXCEPT ![w] = "read"]
  /\ UNCHANGED <<layoutVars, frame, owner, born, buffer, wrote, twoWriters, lateWrite>>

Discard(w) ==
  /\ AppReady
  /\ CanDiscard(w)
  /\ phase' = [phase EXCEPT ![w] = "none"]
  /\ owner' = [owner EXCEPT ![w] = 0]
  /\ buffer' = [buffer EXCEPT ![w] = NoBytes]
  /\ wrote' = [wrote EXCEPT ![w] = {}]
  /\ saw' = [saw EXCEPT ![w] = {}]
  /\ born' = [born EXCEPT ![w] = 0]
  /\ UNCHANGED <<layoutVars, frame, twoWriters, lateWrite, earlyRead>>

EndFrame ==
  /\ AppReady
  /\ CanEndFrame
  /\ frame < MaxFrames
  /\ frame' = frame + 1
  /\ UNCHANGED <<layoutVars, phase, owner, born, buffer, wrote, saw,
                 twoWriters, lateWrite, earlyRead>>

Init == InitLayout /\ InitRun

Next ==
  \/ \E side \in Sides : PlaceField(side)
  \/ \E side \in Sides : FinishStruct(side)
  \/ \E side \in Sides : PlaceEnumerator(side)
  \/ \E w \in Windows, p \in Producers,
        hov \in HoverFlagValues, prog \in ProgressPatterns, fill \in FillBytes :
        Construct(w, p, hov, prog, fill)
  \/ \E w \in Windows, p \in Producers, hov \in HoverFlagValues :
        WriteIsHovered(w, p, hov)
  \/ \E w \in Windows, p \in Producers, prog \in ProgressPatterns :
        WriteHoverProgress(w, p, prog)
  \/ \E w \in Windows : HandOff(w)
  \/ \E w \in Windows, oob \in FillBytes : ShaderRead(w, oob)
  \/ \E w \in Windows : Discard(w)
  \/ EndFrame

Spec == Init /\ [][Next]_vars

\* ------------------------------------------------------------ the layouts
\* Both structs of a side are complete.
Laid(side) == pc[side] \in {"FunctionConstant", "done"}

HasField(side, s, name) ==
  \E i \in 1 .. Len(VisibleFields(side, s)) : VisibleFields(side, s)[i].name = name

\* The seven parts of WindowUniformsArray, in the order the header declares them.
Elements ==
  << [field |-> "uniforms",      index |-> 0],
     [field |-> "uniforms",      index |-> 1],
     [field |-> "windowID",      index |-> 0],
     [field |-> "isHovered",     index |-> 0],
     [field |-> "padding",       index |-> 0],
     [field |-> "hoverProgress", index |-> 0],
     [field |-> "padding2",      index |-> 0] >>

ElemDeclared(side, el) ==
  /\ HasField(side, "WindowUniformsArray", el.field)
  /\ el.index <
       VisibleFields(side, "WindowUniformsArray")[FieldIndex(side, "WindowUniformsArray", el.field)].count

ElemSize(side, el) == ElementSize(side, "WindowUniformsArray", el.field)

ElemOffset(side, el) ==
  OffsetOf(side, "WindowUniformsArray", el.field) + el.index * ElemSize(side, el)

ElemEnd(side, el) == ElemOffset(side, el) + ElemSize(side, el)

\* The element is declared and occupies exactly the bytes lo .. hi.
Occupies(side, el, lo, hi) ==
  /\ ElemDeclared(side, el)
  /\ ElemOffset(side, el) = lo
  /\ ElemEnd(side, el) = hi + 1

\* The end of member i of struct s: its offset plus its elements.
MemberEnd(side, s, i) ==
  offs[side][s][i] + FieldSize(side, s, VisibleFields(side, s)[i].name)

\* C1: under the C layout rules the padded WindowUniformsArray is exactly 400
\* bytes, on every side that has laid it out.
C1_SizeIs400 ==
  \A side \in Sides : Laid(side) => sizes[side]["WindowUniformsArray"] = 400

C1_Witness ==
  \A side \in Sides :
    Laid(side) /\ Len(offs[side]["WindowUniformsArray"]) = 6
               /\ cursor[side] = 0 /\ pc[side] = "FunctionConstant"

\* C2: the host layout and the shader layout, each computed by its own
\* toolchain, have the same total size and the same offset for every one of
\* the seven parts, hoverProgress among them.
C2_HostShaderAgree ==
  (Laid("host") /\ Laid("shader")) =>
    /\ sizes["host"]["WindowUniformsArray"] = sizes["shader"]["WindowUniformsArray"]
    /\ \A i \in 1 .. Len(Elements) :
         /\ ElemDeclared("host", Elements[i])
         /\ ElemDeclared("shader", Elements[i])
         /\ ElemOffset("host", Elements[i]) = ElemOffset("shader", Elements[i])

C2_Witness ==
  /\ Laid("host") /\ Laid("shader")
  /\ OffsetOf("host", "WindowUniformsArray", "hoverProgress") > 0
  /\ OffsetOf("shader", "WindowUniformsArray", "hoverProgress") > 0

\* C3: a WindowUniforms is three 64-byte matrices, 192 bytes; uniforms[0..1]
\* occupy bytes 0..383; windowID starts at 384, right after the array, and
\* isHovered at 386, right after windowID.
C3_ArrayThenIdThenFlag ==
  \A side \in Sides : Laid(side) =>
    /\ Len(VisibleFields(side, "WindowUniforms")) = 3
    /\ \A i \in 1 .. 3 : SizeOfType(side, VisibleFields(side, "WindowUniforms")[i].type) = 64
    /\ sizes[side]["WindowUniforms"] = 192
    /\ Occupies(side, Elements[1], 0, 191)
    /\ Occupies(side, Elements[2], 192, 383)
    /\ ElemOffset(side, Elements[3]) = 384
    /\ ElemOffset(side, Elements[3]) = ElemEnd(side, Elements[2])
    /\ ElemOffset(side, Elements[4]) = 386
    /\ ElemOffset(side, Elements[4]) = ElemEnd(side, Elements[3])

C3_Witness ==
  \E side \in Sides :
    /\ pc[side] = "WindowUniformsArray" /\ idx[side] = 3
    /\ sizes[side]["WindowUniforms"] > 0

\* The ordinal a side gives a named enumerator.
EnumValueOf(side, name) ==
  enumVal[side][CHOOSE i \in 1 .. Len(FunctionConstantDecl) :
                  FunctionConstantDecl[i].name = name]

\* C4: no enumerator has an initializer, and on every side that has read the
\* enum HoverEffect = 0, UseTextureArray = 1, DebugColors = 2, pairwise
\* distinct; two sides that have read it give every enumerator the same ordinal.
C4_EnumOrdinals ==
  /\ \A i \in 1 .. Len(FunctionConstantDecl) : FunctionConstantDecl[i].init = << >>
  /\ \A side \in Sides : pc[side] = "done" =>
       /\ EnumValueOf(side, "FunctionConstantHoverEffect") = 0
       /\ EnumValueOf(side, "FunctionConstantUseTextureArray") = 1
       /\ EnumValueOf(side, "FunctionConstantDebugColors") = 2
       /\ \A i, j \in 1 .. Len(enumVal[side]) :
            i # j => enumVal[side][i] # enumVal[side][j]
  /\ (pc["host"] = "done" /\ pc["shader"] = "done") => enumVal["host"] = enumVal["shader"]

C4_Witness ==
  /\ pc["host"] = "done" /\ pc["shader"] = "done"
  /\ Len(enumVal["host"]) = 3 /\ Len(enumVal["shader"]) = 3

\* C8: the parts come in the order uniforms[0], uniforms[1], windowID,
\* isHovered, padding, hoverProgress, padding2: offsets strictly increase in
\* that order and no two parts share a byte.
C8_OrderedDisjoint ==
  \A side \in Sides : Laid(side) =>
    /\ \A i \in 1 .. Len(Elements) : ElemDeclared(side, Elements[i])
    /\ \A i \in 1 .. Len(Elements) - 1 :
         ElemOffset(side, Elements[i]) < ElemOffset(side, Elements[i + 1])
    /\ \A i, j \in 1 .. Len(Elements) :
         i # j => \/ ElemEnd(side, Elements[i]) <= ElemOffset(side, Elements[j])
                  \/ ElemEnd(side, Elements[j]) <= ElemOffset(side, Elements[i])

C8_Witness ==
  \E side \in Sides :
    /\ Laid(side)
    /\ ElemOffset(side, Elements[7]) > ElemOffset(side, Elements[1])
    /\ pc[side] = "done"

\* C9: padding occupies bytes 388..391, hoverProgress 392..395 (a multiple of
\* 4), padding2 396..399, and the struct ends there, at 400.
C9_PaddedTail ==
  \A side \in Sides : Laid(side) =>
    /\ Occupies(side, Elements[5], 388, 391)
    /\ ElemOffset(side, Elements[5]) = ElemEnd(side, Elements[4])
    /\ Occupies(side, Elements[6], 392, 395)
    /\ ElemOffset(side, Elements[6]) % 4 = 0
    /\ Occupies(side, Elements[7], 396, 399)
    /\ ElemEnd(side, Elements[7]) = sizes[side]["WindowUniformsArray"]
    /\ sizes[side]["WindowUniformsArray"] = 400

C9_Witness ==
  \E side \in Sides :
    /\ Laid(side)
    /\ HasField(side, "WindowUniformsArray", "padding")
    /\ HasField(side, "WindowUniformsArray", "padding2")
    /\ ElemSize(side, Elements[5]) = 4

\* C10: the compiler inserts no padding: the first member is at 0, every
\* other member starts where the one before it ends, every offset is a
\* multiple of the member's alignment, the size is the end of the last member
\* (384 + 2 + 2 + 4 + 4 + 4 = 400) and a multiple of the 16-byte alignment.
C10_NoImplicitPadding ==
  \A side \in Sides : Laid(side) =>
    LET s == "WindowUniformsArray"
        fs == VisibleFields(side, s)
        n == Len(fs)
    IN /\ offs[side][s][1] = 0
       /\ \A i \in 1 .. n - 1 : offs[side][s][i + 1] = MemberEnd(side, s, i)
       /\ \A i \in 1 .. n : offs[side][s][i] % AlignOfType(side, fs[i].type) = 0
       /\ sizes[side][s] = MemberEnd(side, s, n)
       /\ sizes[side][s] = 384 + 2 + 2 + 4 + 4 + 4
       /\ aligns[side][s] = 16
       /\ sizes[side][s] % aligns[side][s] = 0
       /\ \A i \in 1 .. n :
            AlignOfType(side, fs[i].type) =
              (CASE fs[i].type \in StructNames -> 16
                 [] fs[i].type = "uint16_t" -> 2
                 [] OTHER -> 4)

C10_Witness ==
  \E side \in Sides :
    /\ Laid(side)
    /\ aligns[side]["WindowUniformsArray"] = 16
    /\ MemberEnd(side, "WindowUniformsArray", 6) = 400

\* ------------------------------------------------------------ the instance
\* C5: for every 16-bit value the producer assigned to isHovered, the shader
\* that has read the instance sees the window hovered iff the value is not 0.
C5_HoveredIffNonzero ==
  \A w \in Windows : \A v \in wrote[w] : \A r \in saw[w] :
    /\ v.hov \in 0 .. 65535
    /\ r.hovered <=> (v.hov # 0)
    /\ (v.hov = 0) => ~r.hovered

C5_Witness ==
  \E w \in Windows : \E v \in wrote[w] : \E r \in saw[w] :
    v.hov = 256 /\ r.hovered /\ phase[w] = "read"

\* C6: the four bytes assigned to hoverProgress read back unchanged, on the
\* host and in the shader, whatever the pattern; and every other member still
\* reads back what was last assigned to it (the matrices and the two padding
\* words included), so assigning hoverProgress changed none of them.
C6_ProgressRoundTrip ==
  \A w \in Windows : \A v \in wrote[w] : \A oob \in FillBytes :
    /\ HostLoad(buffer[w], "hoverProgress", oob) = v.prog
    /\ \A r \in saw[w] : r.prog = v.prog
    /\ HostLoad(buffer[w], "windowID", oob) = IntBytes(v.id, 2)
    /\ HostLoad(buffer[w], "isHovered", oob) = IntBytes(v.hov, 2)
    /\ HostLoad(buffer[w], "padding", oob) = <<0, 0, 0, 0>>
    /\ HostLoad(buffer[w], "padding2", oob) = <<0, 0, 0, 0>>
    /\ LET u == HostLoad(buffer[w], "uniforms", oob)
       IN /\ Len(u) = 384
          /\ \A k \in 0 .. MatrixCount("host") - 1 :
               /\ MatrixOffset("host", k) = 64 * k
               /\ SubSeq(u, 64 * k + 1, 64 * k + 64) = MatrixBytes(k)
    /\ Len(buffer[w]) = sizes["host"]["WindowUniformsArray"]

C6_Witness ==
  \E w \in Windows : \E v \in wrote[w] : \E r \in saw[w] :
    /\ v.prog = <<0, 0, 192, 63>>
    /\ r.prog = <<0, 0, 192, 63>>
    /\ v.hov = 1 /\ r.hov = 1

\* The order of an instance's life.
LifeSteps ==
  { <<"none", "written">>, <<"written", "handed">>,
    <<"handed", "read">>, <<"read", "none">> }

C7_LifeInv ==
  /\ ~twoWriters
  /\ ~lateWrite
  /\ ~earlyRead
  /\ \A w \in Windows :
       /\ (phase[w] = "written") <=> (owner[w] \in Producers)
       /\ (phase[w] # "written") => owner[w] = 0
       /\ (phase[w] # "none") => born[w] = frame
       /\ (phase[w] = "none") => buffer[w] = NoBytes
       /\ (saw[w] # {}) => phase[w] = "read"

C7_LifeStep ==
  \A w \in Windows :
    /\ (phase'[w] # phase[w]) => <<phase[w], phase'[w]>> \in LifeSteps
    /\ (buffer'[w] # buffer[w]) => (phase'[w] = "written" \/ phase'[w] = "none")
    /\ (frame' # frame) => phase[w] = "none"

\* C7: an instance is written by one producer, then handed off, then read by
\* the shader, then dropped: no read before the hand-off, no second writer, no
\* write or change of the bytes after the hand-off, none alive at a frame's end.
C7_Lifecycle == [](C7_LifeInv) /\ [][C7_LifeStep]_vars

C7_Witness ==
  \E w \in Windows :
    /\ phase[w] = "read" /\ saw[w] # {} /\ frame = 1 /\ born[w] = 1
    /\ buffer[w] # NoBytes /\ owner[w] = 0

====
